---- MODULE Spec2Model ----
(***************************************************************************)
(* Model of the hoglet circuit breaker: the Circuit (Call, State,          *)
(* stateForCall, setOpenedAt, observeCtx), the EWMA and SlidingWindow      *)
(* breakers and the ConcurrencyLimiter middleware.                         *)
(*                                                                         *)
(* Time is a discrete clock `now` (one unit stands for an arbitrary fixed  *)
(* number of microseconds); every atomic step reads the clock at the       *)
(* instant it runs.  Floating point rates are modelled as exact rationals  *)
(* plus the distinguished smallest subnormal used as start value.          *)
(***************************************************************************)
EXTENDS Integers, Sequences, FiniteSets, TLC

\* ------------------------------------------------------------------ bounds
NumCallers == 2

MaxCalls == 3

HalfOpenDelay == 2

WindowSize == HalfOpenDelay

Limit == 1

Now0 == WindowSize + 1

MaxTime == Now0 + HalfOpenDelay + 1

\* observations given to a policy that is driven on its own
MaxObs == 4

\* NewEWMABreaker(10, 0.1), as in the examples and TestWithHalfOpenDelay
SampleCount == 10

ThresholdNum == 1

ThresholdDen == 10

\* the goroutines that call the circuit, one Call after the other
Callers == 1 .. NumCallers

\* --------------------------------------------------------------- rationals
RECURSIVE GCD(_, _)
GCD(a, b) == IF b = 0 THEN a ELSE GCD(b, a % b)

Abs(x) == IF x < 0 THEN -x ELSE x

\* a float64 value: either n/d, or (tiny) the smallest subnormal with sign n
Rat(n, d) ==
    LET s == IF d < 0 THEN -1 ELSE 1
        g == GCD(Abs(n), Abs(d))
    IN  [tiny |-> FALSE, n |-> (s * n) \div g, d |-> (s * d) \div g]

Tiny == [tiny |-> TRUE, n |-> 1, d |-> 1]

NegTiny == [tiny |-> TRUE, n |-> -1, d |-> 1]

RatGt(a, b) == a.n * b.d > b.n * a.d

RatAdd(a, b) == Rat(a.n * b.d + b.n * a.d, a.d * b.d)

RatMul(a, b) == Rat(a.n * b.n, a.d * b.d)

RatSub(a, b) == Rat(a.n * b.d - b.n * a.d, a.d * b.d)

Zero == Rat(0, 1)

One == Rat(1, 1)

\* x > y for float64 values that may be the subnormal start value
FloatGt(x, y) ==
    CASE x.tiny /\ y.tiny -> x.n > y.n
      [] x.tiny -> IF x.n > 0 THEN y.n <= 0 ELSE y.n < 0
      [] y.tiny -> IF y.n > 0 THEN x.n > 0 ELSE x.n >= 0
      [] OTHER -> RatGt(x, y)

\* tiny * k rounded to float64 (round half to even): the multiples of the
\* smallest subnormal are the only representable results
TinyTimes(k) ==
    IF RatGt(k, Rat(1, 2)) /\ ~RatGt(k, Rat(3, 2)) THEN Tiny
    ELSE IF RatGt(Rat(-1, 2), k) /\ ~RatGt(Rat(-3, 2), k) THEN NegTiny
    ELSE Zero

\* ------------------------------------------------------------------- state
VARIABLES
    now,                  \* wall clock
    cfg,                  \* how the circuit was constructed
    openedAt,             \* Circuit.openedAt
    failureRate,          \* EWMABreaker.failureRate
    currentStart,         \* SlidingWindowBreaker.currentStart
    currentSuccessCount,
    currentFailureCount,
    lastSuccessCount,
    lastFailureCount,
    sem,                  \* slots acquired from the limiter's semaphore
    pc,                   \* position of each Call
    stv,                  \* the state each Call computed for itself
    wpc,                  \* position of each Call's observeCtx goroutine
    pctx,                 \* the caller's context of each Call
    cause,                \* cancellation cause of each Call's child context
    fret,                 \* what the wrapped function did
    result,               \* what Call gave to its caller
    once,                 \* the one-shot guard of each Call's observer
    observed,             \* the observations that reached the breaker
    fcalls,               \* invocations of the wrapped function
    started,              \* calls made so far
    readAt,               \* when each Call read the circuit's state, and for
                          \* a refused Call when it was refused
    metrics               \* the collectors of the prometheus Middleware

vars == <<now, cfg, openedAt, failureRate, currentStart, currentSuccessCount,
          currentFailureCount, lastSuccessCount, lastFailureCount, sem, pc,
          stv, wpc, pctx, cause, fret, result, once, observed, fcalls,
          started, readAt, metrics>>

policyVars == <<failureRate, currentStart, currentSuccessCount,
                currentFailureCount, lastSuccessCount, lastFailureCount>>

callVars == <<pc, stv, wpc, pctx, cause, fret, result, once, observed, fcalls,
              started, readAt>>


\* ------------------------------------------------------------------ values
StateClosed == "closed"

StateHalfOpen == "half-open"

StateOpen == "open"

ErrCircuitOpen == "ErrCircuitOpen"

ErrConcurrencyLimitReached == "ErrConcurrencyLimitReached"

\* faulty variant of ErrWaitingForSlot: the cause is dropped
ErrWaitingForSlotBare(err) == "ErrWaitingForSlot"

\* fmt.Errorf("%w: %w", ErrWaitingForSlot, err): the error and what it wraps
ErrWaitingForSlot(err) == "ErrWaitingForSlot: " \o err

internalCancellation == "internal cancellation"

CtxErrs == {"Canceled", "DeadlineExceeded"}

\* the errors a "%w: %w" error wraps (Unwrap() []error)
Unwrap(err) ==
    IF \E e \in CtxErrs : err = "ErrWaitingForSlot: " \o e
    THEN {"ErrWaitingForSlot"}
             \cup {e \in CtxErrs : err = "ErrWaitingForSlot: " \o e}
    ELSE {}

\* errors.Is: err is target or wraps it
ErrorIs(err, target) == err = target \/ target \in Unwrap(err)

\* what the wrapped function can do: return (out, err) or panic
FReturns == {[out |-> "val", err |-> "nil", panic |-> FALSE],
             [out |-> "zero", err |-> "sentinel", panic |-> FALSE],
             [out |-> "zero", err |-> "nil", panic |-> TRUE]}

FCtxReturn(e) == [out |-> "zero", err |-> e, panic |-> FALSE]

NoResult == [out |-> "none", err |-> "none", panic |-> FALSE]

\* the labels of the dropped-calls counter
Causes == {"circuit_open", "concurrency_limit", "context_canceled",
           "deadline_exceeded", "other"}

\* the collectors of a Middleware that has seen no call
NoMetrics == [inflightCalls |-> 0,
              droppedCalls |-> [cause_ \in Causes |-> 0],
              callDurations |-> [success \in BOOLEAN |-> 0]]

\* ---------------------------------------------------------------- circuit
\* faulty variant of State: a zero halfOpenDelay is compared like any other
StateNoZero(oa, t, delay) ==
    IF oa = 0 THEN StateClosed
    ELSE IF t - oa < delay THEN StateOpen
    ELSE StateHalfOpen

\* faulty variant of State: still open when exactly halfOpenDelay has elapsed
StateLate(oa, t, delay) ==
    IF oa = 0 THEN StateClosed
    ELSE IF delay = 0 \/ t - oa <= delay THEN StateOpen
    ELSE StateHalfOpen

\* faulty variant of State: half-open only during the first halfOpenDelay
\* after the open period, open again afterwards
StateProbeWindow(oa, t, delay) ==
    IF oa = 0 THEN StateClosed
    ELSE IF delay = 0 \/ t - oa < delay \/ t - oa >= 2 * delay THEN StateOpen
    ELSE StateHalfOpen

\* Circuit.State
State(oa, t, delay) ==
    IF oa = 0 THEN StateClosed
    ELSE IF delay = 0 \/ t - oa < delay THEN StateOpen
    ELSE StateHalfOpen

\* Circuit.setOpenedAt: the value of openedAt after setOpenedAt(i)
setOpenedAt(oa, i) ==
    IF i = 0 THEN 0
    ELSE IF oa = 0 THEN i ELSE oa

defaultFailureCondition(err) == err # "nil"

\* faulty variant of IgnoreContextCancelation: context.Canceled is not exempt
IgnoreContextCancelationNone(err) == err # "nil"

IgnoreContextCancelation(err) == err # "nil" /\ err # "Canceled"

isFailure(err) ==
    IF cfg.classifier = "ignore" THEN IgnoreContextCancelation(err)
    ELSE defaultFailureCondition(err)

\* ------------------------------------------------------------------- EWMA
\* NewEWMABreaker: decay = 2 / (sampleCount/2 + 1)
Decay == Rat(4, cfg.sampleCount + 2)

\* the breaker's threshold, in steps of 1 / ThresholdDen
Threshold == Rat(cfg.threshold, ThresholdDen)

\* faulty variant of Blend: the new value is given no weight
BlendKeepsPrev(value, prev) == prev

\* value*decay + failureRate*(1-decay) in float64
Blend(value, prev) ==
    IF prev.tiny
    THEN LET t == TinyTimes(RatMul(Rat(prev.n, 1), RatSub(One, Decay)))
             v == RatMul(value, Decay)
         IN  IF v.n = 0 THEN t ELSE v
    ELSE RatAdd(RatMul(value, Decay), RatMul(prev, RatSub(One, Decay)))

\* faulty variant of EWMAObserve: a probe's success is blended like any other
EWMAObserveBlendsProbe(rate, oa, t, halfOpen, failure) ==
    IF Threshold.n = 0 THEN [rate |-> rate, oa |-> oa]
    ELSE LET value == IF failure THEN One ELSE Zero
             isZero == ~rate.tiny /\ rate.n = 0
             new == IF isZero THEN value ELSE Blend(value, rate)
         IN  [rate |-> new,
              oa |-> IF FloatGt(new, Threshold) THEN setOpenedAt(oa, t)
                     ELSE setOpenedAt(oa, 0)]

\* faulty variant of EWMAObserve: a zero threshold is not set apart
EWMAObserveZeroThreshold(rate, oa, t, halfOpen, failure) ==
    IF ~failure /\ halfOpen THEN [rate |-> Threshold, oa |-> 0]
    ELSE LET value == IF failure THEN One ELSE Zero
             isZero == ~rate.tiny /\ rate.n = 0
             new == IF isZero THEN value ELSE Blend(value, rate)
         IN  [rate |-> new,
              oa |-> IF FloatGt(new, Threshold) THEN setOpenedAt(oa, t)
                     ELSE setOpenedAt(oa, 0)]

\* EWMABreaker.observe: the failure rate and openedAt it leaves behind
EWMAObserve(rate, oa, t, halfOpen, failure) ==
    IF Threshold.n = 0 THEN [rate |-> rate, oa |-> oa]
    ELSE IF ~failure /\ halfOpen THEN [rate |-> Threshold, oa |-> 0]
    ELSE LET value == IF failure THEN One ELSE Zero
             isZero == ~rate.tiny /\ rate.n = 0
             new == IF isZero THEN value ELSE Blend(value, rate)
         IN  [rate |-> new,
              oa |-> IF FloatGt(new, Threshold) THEN setOpenedAt(oa, t)
                     ELSE setOpenedAt(oa, 0)]

\* ---------------------------------------------------------- sliding window
\* faulty variant of SWRateAbove: a rate equal to the threshold opens
SWRateAtLeast(num, den) ==
    IF den > 0 THEN num * Threshold.d >= Threshold.n * den
    ELSE IF den < 0 THEN num * Threshold.d <= Threshold.n * den
    ELSE num > 0

\* failureRate > threshold for failureRate = wf / wt computed in floats, where
\* wf = num / WindowSize and wt = den / WindowSize
SWRateAbove(num, den) ==
    IF den > 0 THEN num * Threshold.d > Threshold.n * den
    ELSE IF den < 0 THEN num * Threshold.d < Threshold.n * den
    ELSE num > 0

\* lastWindowWeight, times WindowSize
SWLastWindowWeight(elapsed) == elapsed - WindowSize

\* weightedFailures, times WindowSize
SWWeightedFailures(lastF, curF, elapsed) ==
    lastF * SWLastWindowWeight(elapsed) + curF * WindowSize

\* weightedTotal, times WindowSize
SWWeightedTotal(lastF, lastS, curF, curS, elapsed) ==
    (lastF + lastS) * SWLastWindowWeight(elapsed) + (curF + curS) * WindowSize

\* SlidingWindowBreaker.observe: the counters and openedAt it leaves behind
SWObserve(sw, oa, t, halfOpen, failure) ==
    IF ~failure /\ halfOpen THEN [sw |-> sw, oa |-> 0]
    ELSE LET swap == t - sw.currentStart > WindowSize
             s1 == IF swap
                   THEN [currentStart |-> t,
                         currentSuccessCount |-> 0,
                         currentFailureCount |-> 0,
                         lastSuccessCount |-> sw.currentSuccessCount,
                         lastFailureCount |-> sw.currentFailureCount]
                   ELSE sw
             oa1 == IF swap THEN 0 ELSE oa
             \* Swap returns the value the last counters held before it
             lastF == sw.lastFailureCount
             lastS == sw.lastSuccessCount
             s2 == IF failure
                   THEN [s1 EXCEPT !.currentFailureCount = @ + 1]
                   ELSE [s1 EXCEPT !.currentSuccessCount = @ + 1]
             curF == s2.currentFailureCount
             curS == s2.currentSuccessCount
             elapsed == t - s2.currentStart
             \* lastWindowWeight = (elapsed - windowSize) / windowSize
             num == SWWeightedFailures(lastF, curF, elapsed)
             den == SWWeightedTotal(lastF, lastS, curF, curS, elapsed)
         IN  [sw |-> s2,
              oa |-> IF SWRateAbove(num, den) THEN setOpenedAt(oa1, t)
                     ELSE setOpenedAt(oa1, 0)]

SW == [currentStart |-> currentStart,
       currentSuccessCount |-> currentSuccessCount,
       currentFailureCount |-> currentFailureCount,
       lastSuccessCount |-> lastSuccessCount,
       lastFailureCount |-> lastFailureCount]

\* ----------------------------------------------------------------- observer
\* the one-shot guard around a call's observer: TRUE once it has fired
dedupObservableCall(c) == once[c]

\* faulty variant of NoopObserve: the circuit opens on a failure all the same
NoopObserveOpens(failure) ==
    /\ openedAt' = IF failure THEN setOpenedAt(openedAt, now) ELSE openedAt
    /\ UNCHANGED policyVars

\* noopObserveable.observe, the observer of a circuit without breaker
NoopObserve(failure) == UNCHANGED <<openedAt, policyVars>>

\* the breaker's observer for call c (EWMABreaker.Call / SlidingWindowBreaker.Call):
\* observe(halfOpen, failure) with halfOpen fixed at admission
BreakerObserve(c, failure) ==
    LET halfOpen == stv[c] = StateHalfOpen
    IN  IF cfg.policy = "none" THEN NoopObserve(failure)
        ELSE IF cfg.policy = "ewma"
        THEN LET r == EWMAObserve(failureRate, openedAt, now, halfOpen, failure)
             IN  /\ failureRate' = r.rate
                 /\ openedAt' = r.oa
                 /\ UNCHANGED <<currentStart, currentSuccessCount,
                                currentFailureCount, lastSuccessCount,
                                lastFailureCount>>
        ELSE LET r == SWObserve(SW, openedAt, now, halfOpen, failure)
             IN  /\ currentStart' = r.sw.currentStart
                 /\ currentSuccessCount' = r.sw.currentSuccessCount
                 /\ currentFailureCount' = r.sw.currentFailureCount
                 /\ lastSuccessCount' = r.sw.lastSuccessCount
                 /\ lastFailureCount' = r.sw.lastFailureCount
                 /\ openedAt' = r.oa
                 /\ failureRate' = failureRate

\* faulty variant of LimiterRelease: the wrapped observer forgets the slot
LimiterReleaseNever == sem

\* concurrencyLimiter.ObserverForCall's observer: the slot it gives back
LimiterRelease == IF cfg.limiter = "none" THEN sem ELSE sem - 1

\* obs.observe(failure) on the observer Call holds for call c
Observe(c, failure) ==
    IF dedupObservableCall(c)
    THEN UNCHANGED <<once, observed, openedAt, policyVars, sem>>
    ELSE /\ once' = [once EXCEPT ![c] = TRUE]
         /\ observed' = [observed EXCEPT ![c] = Append(@, failure)]
         /\ BreakerObserve(c, failure)
         /\ sem' = LimiterRelease

\* ------------------------------------------------------------------ actions
\* callers are numbered in the order of their first call
InOrder(c) == IF c = 1 THEN TRUE ELSE pc[c - 1] # "idle"

Tick ==
    /\ now < MaxTime
    /\ now' = now + 1
    /\ UNCHANGED <<cfg, metrics, openedAt, policyVars, sem, callVars>>

\* the caller cancels the context it gave to Call, or its deadline expires,
\* while the call waits for a slot or while f runs
CancelCtx(c, e) ==
    /\ pctx[c] = "live"
    /\ \/ pc[c] = "factory" /\ cfg.limiter = "block"
       \/ pc[c] = "running"
    /\ pctx' = [pctx EXCEPT ![c] = e]
    /\ cause' = [cause EXCEPT ![c] = IF @ = "live" THEN e ELSE @]
    /\ UNCHANGED <<now, cfg, metrics, openedAt, policyVars, sem, pc, stv, wpc, fret,
                   result, once, observed, fcalls, started, readAt>>

\* Call(ctx, in) begins, with a context that is live or already done.
\* stateForCall, first half: state := c.State()
CallState(c, ctx) ==
    /\ \/ pc[c] = "idle" /\ InOrder(c)
       \/ pc[c] = "done" /\ wpc[c] # "waiting"
    /\ started < MaxCalls
    /\ started' = started + 1
    /\ readAt' = [readAt EXCEPT ![c] = now]
    /\ LET st == State(openedAt, now, cfg.halfOpenDelay)
       IN  /\ stv' = [stv EXCEPT ![c] = st]
           /\ pc' = [pc EXCEPT ![c] = IF st = StateHalfOpen THEN "restamp"
                                      ELSE "factory"]
    /\ pctx' = [pctx EXCEPT ![c] = ctx]
    /\ cause' = [cause EXCEPT ![c] = "none"]
    /\ wpc' = [wpc EXCEPT ![c] = "none"]
    /\ fret' = [fret EXCEPT ![c] = NoResult]
    /\ result' = [result EXCEPT ![c] = NoResult]
    /\ once' = [once EXCEPT ![c] = FALSE]
    /\ observed' = [observed EXCEPT ![c] = << >>]
    /\ fcalls' = [fcalls EXCEPT ![c] = 0]
    /\ UNCHANGED <<now, cfg, metrics, openedAt, policyVars, sem>>

\* stateForCall, second half: if state == StateHalfOpen { c.setOpenedAt(now) }
CallRestamp(c) ==
    /\ pc[c] = "restamp"
    /\ openedAt' = setOpenedAt(openedAt, now)
    /\ pc' = [pc EXCEPT ![c] = "factory"]
    /\ UNCHANGED <<now, cfg, metrics, policyVars, sem, stv, wpc, pctx, cause, fret,
                   result, once, observed, fcalls, started, readAt>>

\* faulty variant of Refuse: a refused call is fed to the policy as a failure
RefuseObserved(c, err) ==
    /\ pc' = [pc EXCEPT ![c] = "done"]
    /\ result' = [result EXCEPT ![c] = [out |-> "zero", err |-> err,
                                        panic |-> FALSE]]
    /\ pctx' = [pctx EXCEPT ![c] = "gone"]
    /\ readAt' = [readAt EXCEPT ![c] = now]
    /\ BreakerObserve(c, TRUE)
    /\ UNCHANGED <<wpc, cause, fcalls, once, observed>>

\* Call returns an admission error: no observer, no watcher, f is not called
Refuse(c, err) ==
    /\ pc' = [pc EXCEPT ![c] = "done"]
    /\ result' = [result EXCEPT ![c] = [out |-> "zero", err |-> err,
                                        panic |-> FALSE]]
    /\ pctx' = [pctx EXCEPT ![c] = "gone"]
    /\ readAt' = [readAt EXCEPT ![c] = now]
    /\ UNCHANGED <<wpc, cause, fcalls, openedAt, policyVars, once, observed>>

\* Call got an observer: child context, go observeCtx, then f(ctx, in)
Admit(c) ==
    /\ pc' = [pc EXCEPT ![c] = "running"]
    /\ cause' = [cause EXCEPT ![c] = pctx[c]]
    /\ wpc' = [wpc EXCEPT ![c] = "waiting"]
    /\ fcalls' = [fcalls EXCEPT ![c] = @ + 1]
    /\ UNCHANGED <<result, pctx, openedAt, policyVars, once, observed, readAt>>

\* faulty variant of BreakerFactory: the state for the call is not consulted
BreakerFactoryAlways(c) == Admit(c)

\* the breaker's own factory: nil (ErrCircuitOpen) when the state is open
BreakerFactory(c) ==
    IF stv[c] = StateOpen THEN Refuse(c, ErrCircuitOpen) ELSE Admit(c)

\* mockObserverFactory.ObserverForCall: always an observer, never an error
MockObserverFactory(c) ==
    /\ pc' = [pc EXCEPT ![c] = "running"]
    /\ UNCHANGED <<result, pctx, readAt, wpc, cause, fcalls, openedAt,
                   policyVars, once, observed>>

\* cl.next.ObserverForCall: the factory the limiter was put in front of
NextObserverForCall(c) ==
    IF cfg.policy = "mock" THEN MockObserverFactory(c) ELSE BreakerFactory(c)

\* faulty variant of SlotFree: one slot more than the limit
SlotFreeOffByOne == sem <= Limit

\* the semaphore has a free slot (TryAcquire succeeds, Acquire does not wait)
SlotFree == sem < Limit

\* the ObserverForCall of the limiter
LimiterObserverForCall(c) ==
    CASE cfg.limiter = "none" ->
              /\ NextObserverForCall(c)
              /\ sem' = sem
         [] cfg.limiter = "nonblock" ->
              IF SlotFree
              THEN /\ sem' = sem + 1
                   /\ NextObserverForCall(c)
              ELSE /\ Refuse(c, ErrConcurrencyLimitReached)
                   /\ sem' = sem
         [] cfg.limiter = "block" ->
              IF SlotFree
              THEN /\ sem' = sem + 1
                   /\ NextObserverForCall(c)
              ELSE /\ pctx[c] # "live"
                   /\ Refuse(c, ErrWaitingForSlot(pctx[c]))
                   /\ sem' = sem

\* obs := c.observerForCall() and what Call does with the answer
CallObserverForCall(c) ==
    /\ pc[c] = "factory"
    /\ LimiterObserverForCall(c)
    /\ UNCHANGED <<now, cfg, metrics, stv, fret, started>>

\* faulty variant of DeferredFailure: a panic is classified by its nil error
DeferredFailureByErr(r) == isFailure(r.err)

\* the flag the deferred function of Call observes
DeferredFailure(r) == IF r.panic THEN TRUE ELSE isFailure(r.err)

\* faulty variant of DeferredObserve: only the recovered panic is observed,
\* the observation of the returned error is missing
DeferredObserveOnlyPanic(c, r) ==
    IF r.panic THEN Observe(c, TRUE)
    ELSE UNCHANGED <<once, observed, openedAt, policyVars, sem>>

\* faulty variant of DeferredObserve: no recover, a panic is not observed
DeferredObserveUnlessPanic(c, r) ==
    IF r.panic THEN UNCHANGED <<once, observed, openedAt, policyVars, sem>>
    ELSE Observe(c, DeferredFailure(r))

\* the deferred function of Call: recover, observe, panic again
DeferredObserve(c, r) == Observe(c, DeferredFailure(r))

\* faulty variant of CallResult: the output is dropped
CallResultZero(r) == [r EXCEPT !.out = "zero"]

\* what Call hands to its caller when f returned or panicked with r
CallResult(r) == r

\* faulty variant of Cancelled: the deferred cancel is missing
CancelledNever(cur, why) == cur

\* the child context after cancel(cause)
Cancelled(cur, why) == IF cur = "live" THEN why ELSE cur

\* f returns or panics with r; the deferred function observes (and re-panics
\* after a panic); the deferred cancel(internalCancellation) runs; Call ends
CallReturn(c, r) ==
    /\ pc[c] = "running"
    /\ fret' = [fret EXCEPT ![c] = r]
    /\ DeferredObserve(c, r)
    /\ cause' = [cause EXCEPT ![c] =
                   IF wpc[c] = "done" THEN "gone"
                   ELSE Cancelled(@, internalCancellation)]
    /\ pctx' = [pctx EXCEPT ![c] = "gone"]
    /\ result' = [result EXCEPT ![c] = CallResult(r)]
    /\ pc' = [pc EXCEPT ![c] = "done"]
    /\ readAt' = [readAt EXCEPT ![c] = 0]
    /\ UNCHANGED <<now, cfg, metrics, stv, wpc, fcalls, started>>

\* faulty variant of WatcherErr: every cause counts as the internal one
WatcherErrInternal(c) == "nil"

\* the error observeCtx classifies once ctx.Done() is closed
WatcherErr(c) == IF cause[c] = internalCancellation THEN "nil" ELSE cause[c]

\* <-ctx.Done() can return: the watcher runs and the child context is done
CtxDone(c) == wpc[c] = "waiting" /\ cause[c] # "live"

\* observeCtx: <-ctx.Done(), then observe
ObserveCtx(c) ==
    /\ CtxDone(c)
    /\ Observe(c, isFailure(WatcherErr(c)))
    /\ wpc' = [wpc EXCEPT ![c] = "done"]
    /\ cause' = [cause EXCEPT ![c] = IF pc[c] = "done" THEN "gone" ELSE @]
    /\ UNCHANGED <<now, cfg, metrics, pc, stv, pctx, fret, result, fcalls, started,
                   readAt>>

\* what f can do: succeed, fail, panic, or give back the context's error
FOutcomes(c) ==
    FReturns \cup {FCtxReturn(e) : e \in {cause[c]} \cap CtxErrs}

Next ==
    \/ Tick
    \/ \E c \in Callers, e \in CtxErrs : CancelCtx(c, e)
    \/ \E c \in Callers, ctx \in {"live"} \cup CtxErrs : CallState(c, ctx)
    \/ \E c \in Callers : CallRestamp(c)
    \/ \E c \in Callers : CallObserverForCall(c)
    \/ \E c \in Callers : \E r \in FOutcomes(c) : CallReturn(c, r)
    \/ \E c \in Callers : ObserveCtx(c)

\* ----------------------------------------------------------- construction
InitState ==
    /\ now = Now0
    /\ openedAt = 0
    /\ failureRate = Tiny
    /\ currentStart = 0
    /\ currentSuccessCount = 0
    /\ currentFailureCount = 0
    /\ lastSuccessCount = 0
    /\ lastFailureCount = 0
    /\ sem = 0
    /\ pc = [c \in Callers |-> "idle"]
    /\ stv = [c \in Callers |-> StateClosed]
    /\ wpc = [c \in Callers |-> "none"]
    /\ pctx = [c \in Callers |-> "gone"]
    /\ cause = [c \in Callers |-> "none"]
    /\ fret = [c \in Callers |-> NoResult]
    /\ result = [c \in Callers |-> NoResult]
    /\ once = [c \in Callers |-> FALSE]
    /\ observed = [c \in Callers |-> << >>]
    /\ fcalls = [c \in Callers |-> 0]
    /\ started = 0
    /\ readAt = [c \in Callers |-> 0]

\* NewCircuit(f, breaker, WithHalfOpenDelay(HalfOpenDelay)) with either breaker
Init ==
    /\ InitState
    /\ metrics = NoMetrics
    /\ cfg \in [policy : {"ewma", "sw"}, limiter : {"none"},
                classifier : {"default"}, sampleCount : {SampleCount},
                threshold : {ThresholdNum}, halfOpenDelay : {HalfOpenDelay}]

Spec == Init /\ [][Next]_vars

\* the same circuits behind ConcurrencyLimiter(Limit, block)
InitLimiter ==
    /\ InitState
    /\ metrics = NoMetrics
    /\ cfg \in [policy : {"ewma", "sw"}, limiter : {"nonblock", "block"},
                classifier : {"default"}, sampleCount : {SampleCount},
                threshold : {ThresholdNum}, halfOpenDelay : {HalfOpenDelay}]

SpecLimiter == InitLimiter /\ [][Next]_vars

\* a sliding-window circuit behind the blocking limiter
InitBlocking ==
    /\ InitState
    /\ metrics = NoMetrics
    /\ cfg \in [policy : {"sw"}, limiter : {"block"},
                classifier : {"default"}, sampleCount : {SampleCount},
                threshold : {ThresholdNum}, halfOpenDelay : {HalfOpenDelay}]

\* every goroutine that can take its next step does so in the end: a call
\* that can pass the limiter passes it, a call that runs returns, and a
\* watcher whose context is done wakes up. Callers need not cancel, time need
\* not pass and nobody has to start a new call.
Fairness ==
    \A c \in Callers :
        /\ WF_vars(CallRestamp(c))
        /\ WF_vars(CallObserverForCall(c))
        /\ WF_vars(\E r \in FOutcomes(c) : CallReturn(c, r))
        /\ WF_vars(ObserveCtx(c))

SpecBlockingFair == InitBlocking /\ [][Next]_vars /\ Fairness

\* a sliding-window circuit without middleware, its goroutines scheduled fairly
InitSlidingWindow ==
    /\ InitState
    /\ metrics = NoMetrics
    /\ cfg \in [policy : {"sw"}, limiter : {"none"},
                classifier : {"default"}, sampleCount : {SampleCount},
                threshold : {ThresholdNum}, halfOpenDelay : {HalfOpenDelay}]

SpecFair == InitSlidingWindow /\ [][Next]_vars /\ Fairness

\* a circuit found open: its first observation, a failure made halfOpenDelay
\* before Now0, has opened it
InitOpened ==
    /\ metrics = NoMetrics
    /\ cfg \in [policy : {"ewma", "sw"}, limiter : {"none"},
                classifier : {"default"}, sampleCount : {SampleCount},
                threshold : {ThresholdNum}, halfOpenDelay : {HalfOpenDelay}]
    /\ now = Now0
    /\ LET at == Now0 - HalfOpenDelay
           fresh == [currentStart |-> 0, currentSuccessCount |-> 0,
                     currentFailureCount |-> 0, lastSuccessCount |-> 0,
                     lastFailureCount |-> 0]
           e == EWMAObserve(Tiny, 0, at, FALSE, TRUE)
           s == SWObserve(fresh, 0, at, FALSE, TRUE)
       IN  /\ openedAt = IF cfg.policy = "ewma" THEN e.oa ELSE s.oa
           /\ failureRate = IF cfg.policy = "ewma" THEN e.rate ELSE Tiny
           /\ currentStart =
                 IF cfg.policy = "ewma" THEN 0 ELSE s.sw.currentStart
           /\ currentSuccessCount =
                 IF cfg.policy = "ewma" THEN 0 ELSE s.sw.currentSuccessCount
           /\ currentFailureCount =
                 IF cfg.policy = "ewma" THEN 0 ELSE s.sw.currentFailureCount
           /\ lastSuccessCount =
                 IF cfg.policy = "ewma" THEN 0 ELSE s.sw.lastSuccessCount
           /\ lastFailureCount =
                 IF cfg.policy = "ewma" THEN 0 ELSE s.sw.lastFailureCount
    /\ sem = 0
    /\ pc = [c \in Callers |-> "idle"]
    /\ stv = [c \in Callers |-> StateClosed]
    /\ wpc = [c \in Callers |-> "none"]
    /\ pctx = [c \in Callers |-> "gone"]
    /\ cause = [c \in Callers |-> "none"]
    /\ fret = [c \in Callers |-> NoResult]
    /\ result = [c \in Callers |-> NoResult]
    /\ once = [c \in Callers |-> FALSE]
    /\ observed = [c \in Callers |-> << >>]
    /\ fcalls = [c \in Callers |-> 0]
    /\ started = 0
    /\ readAt = [c \in Callers |-> 0]

SpecOpened == InitOpened /\ [][Next]_vars

\* a circuit built with WithFailureCondition(IgnoreContextCancelation)
InitIgnore ==
    /\ InitState
    /\ metrics = NoMetrics
    /\ cfg \in [policy : {"ewma", "sw"}, limiter : {"none"},
                 classifier : {"ignore"}, sampleCount : {SampleCount},
                 threshold : {ThresholdNum}, halfOpenDelay : {HalfOpenDelay}]

SpecIgnore == InitIgnore /\ [][Next]_vars

\* NewCircuit with and without WithHalfOpenDelay: the delay stays 0 when the
\* option is not given
InitDelays ==
    /\ InitState
    /\ metrics = NoMetrics
    /\ cfg \in [policy : {"ewma", "sw"}, limiter : {"none"},
                 classifier : {"default"}, sampleCount : {SampleCount},
                 threshold : {ThresholdNum},
                 halfOpenDelay : {0, HalfOpenDelay}]

SpecDelays == InitDelays /\ [][Next]_vars

\* NewCircuit(f, nil): no breaker, so no call ever finds the circuit half-open
NextNoop ==
    \/ Tick
    \/ \E c \in Callers, e \in CtxErrs : CancelCtx(c, e)
    \/ \E c \in Callers, ctx \in {"live"} \cup CtxErrs : CallState(c, ctx)
    \/ \E c \in Callers : CallObserverForCall(c)
    \/ \E c \in Callers : \E r \in FOutcomes(c) : CallReturn(c, r)
    \/ \E c \in Callers : ObserveCtx(c)

InitNoop ==
    /\ InitState
    /\ metrics = NoMetrics
    /\ cfg \in [policy : {"none"}, limiter : {"none"},
                 classifier : {"default"}, sampleCount : {SampleCount},
                 threshold : {ThresholdNum},
                 halfOpenDelay : {0, HalfOpenDelay}]

SpecNoop == InitNoop /\ [][NextNoop]_vars

\* ------------------------------------------------- the EWMA policy alone
\* breaker.observe(halfOpen, failure) called directly, as the breaker tests do,
\* by goroutines that may run it concurrently. The observer's locals are kept
\* in fret (the rate Swap returned), observed (failure) and stv (halfOpen).

\* EWMABreaker.observe up to failureRate.Swap(value): the early returns are
\* whole observations
EWMASwap(c, halfOpen, failure) ==
    /\ pc[c] = "idle"
    /\ started < MaxObs
    /\ started' = started + 1
    /\ observed' = [observed EXCEPT ![c] = <<failure>>]
    /\ stv' = [stv EXCEPT ![c] = IF halfOpen THEN StateHalfOpen
                                 ELSE StateClosed]
    /\ IF Threshold.n = 0 \/ (~failure /\ halfOpen)
       THEN LET r == EWMAObserve(failureRate, openedAt, now, halfOpen, failure)
            IN  /\ failureRate' = r.rate
                /\ openedAt' = r.oa
                /\ UNCHANGED <<pc, fret>>
       ELSE /\ fret' = [fret EXCEPT ![c] = failureRate]
            /\ failureRate' = IF failure THEN One ELSE Zero
            /\ pc' = [pc EXCEPT ![c] = "swapped"]
            /\ openedAt' = openedAt
    /\ UNCHANGED <<now, cfg, metrics, currentStart, currentSuccessCount,
                   currentFailureCount, lastSuccessCount, lastFailureCount,
                   sem, wpc, pctx, cause, result, once, fcalls, readAt>>

\* EWMABreaker.observe after the Swap: blend, store unless the old rate was 0,
\* and the verdict
EWMAStore(c) ==
    /\ pc[c] = "swapped"
    /\ LET failure == observed[c][1]
           prev == fret[c]
           r == EWMAObserve(prev, openedAt, now, FALSE, failure)
       IN  /\ failureRate' = IF ~prev.tiny /\ prev.n = 0 THEN failureRate
                             ELSE r.rate
           /\ openedAt' = r.oa
    /\ pc' = [pc EXCEPT ![c] = "idle"]
    /\ UNCHANGED <<now, cfg, metrics, currentStart, currentSuccessCount,
                   currentFailureCount, lastSuccessCount, lastFailureCount,
                   sem, stv, wpc, pctx, cause, fret, result, once, observed,
                   fcalls, started, readAt>>

NextEWMA ==
    \/ Tick
    \/ \E c \in Callers, halfOpen \in BOOLEAN, failure \in BOOLEAN :
           EWMASwap(c, halfOpen, failure)
    \/ \E c \in Callers : EWMAStore(c)

\* NewEWMABreaker(sampleCount, threshold) with small and usual sample counts
\* and thresholds over all of [0, 1]
InitEWMA ==
    /\ InitState
    /\ metrics = NoMetrics
    /\ cfg \in [policy : {"ewma"}, limiter : {"none"},
                 classifier : {"default"},
                 sampleCount : {0, 1, 2, SampleCount},
                 threshold : {0, ThresholdNum, ThresholdDen - ThresholdNum,
                              ThresholdDen},
                 halfOpenDelay : {HalfOpenDelay}]

SpecEWMA == InitEWMA /\ [][NextEWMA]_vars

\* --------------------------------------- the sliding-window policy alone
\* breaker.observe(halfOpen, failure) called directly, as the breaker tests do
SWPolicyObserve(c, halfOpen, failure) ==
    /\ started < MaxObs
    /\ started' = started + 1
    /\ observed' = [observed EXCEPT ![c] = <<failure>>]
    /\ stv' = [stv EXCEPT ![c] = IF halfOpen THEN StateHalfOpen
                                 ELSE StateClosed]
    /\ LET r == SWObserve(SW, openedAt, now, halfOpen, failure)
       IN  /\ currentStart' = r.sw.currentStart
           /\ currentSuccessCount' = r.sw.currentSuccessCount
           /\ currentFailureCount' = r.sw.currentFailureCount
           /\ lastSuccessCount' = r.sw.lastSuccessCount
           /\ lastFailureCount' = r.sw.lastFailureCount
           /\ openedAt' = r.oa
    /\ UNCHANGED <<now, cfg, metrics, failureRate, sem, pc, wpc, pctx, cause, fret,
                   result, once, fcalls, readAt>>

NextSW ==
    \/ Tick
    \/ \E c \in Callers, halfOpen \in BOOLEAN, failure \in BOOLEAN :
           SWPolicyObserve(c, halfOpen, failure)

\* NewSlidingWindowBreaker(WindowSize, threshold) with low, middle and high
\* thresholds
InitSW ==
    /\ InitState
    /\ metrics = NoMetrics
    /\ cfg \in [policy : {"sw"}, limiter : {"none"},
                 classifier : {"default"}, sampleCount : {SampleCount},
                 threshold : {ThresholdNum, ThresholdDen \div 2,
                              ThresholdDen - ThresholdNum},
                 halfOpenDelay : {HalfOpenDelay}]

SpecSW == InitSW /\ [][NextSW]_vars

\* the rate computation of SlidingWindowBreaker.observe on any bucket counts
\* and any time since currentStart; the result is kept in fret
SWRateCall(c) ==
    /\ pc[c] = "idle"
    /\ LET elapsed == now - currentStart
       IN  fret' = [fret EXCEPT ![c] =
                      [num |-> SWWeightedFailures(lastFailureCount,
                                   currentFailureCount, elapsed),
                       den |-> SWWeightedTotal(lastFailureCount,
                                   lastSuccessCount, currentFailureCount,
                                   currentSuccessCount, elapsed)]]
    /\ pc' = [pc EXCEPT ![c] = "done"]
    /\ UNCHANGED <<now, cfg, metrics, openedAt, policyVars, sem, stv, wpc, pctx, cause,
                   result, once, observed, fcalls, started, readAt>>

NextSWRate == \E c \in Callers : SWRateCall(c)

InitSWRate ==
    /\ now \in 0..MaxTime
    /\ currentStart = 0
    /\ currentSuccessCount \in 0..MaxObs
    /\ currentFailureCount \in 0..MaxObs
    /\ lastSuccessCount \in 0..MaxObs
    /\ lastFailureCount \in 0..MaxObs
    /\ openedAt = 0
    /\ failureRate = Tiny
    /\ metrics = NoMetrics
    /\ cfg \in [policy : {"sw"}, limiter : {"none"},
                 classifier : {"default"}, sampleCount : {SampleCount},
                 threshold : {ThresholdNum}, halfOpenDelay : {HalfOpenDelay}]
    /\ sem = 0
    /\ pc = [c \in Callers |-> "idle"]
    /\ stv = [c \in Callers |-> StateClosed]
    /\ wpc = [c \in Callers |-> "none"]
    /\ pctx = [c \in Callers |-> "gone"]
    /\ cause = [c \in Callers |-> "none"]
    /\ fret = [c \in Callers |-> NoResult]
    /\ result = [c \in Callers |-> NoResult]
    /\ once = [c \in Callers |-> FALSE]
    /\ observed = [c \in Callers |-> << >>]
    /\ fcalls = [c \in Callers |-> 0]
    /\ started = 0
    /\ readAt = [c \in Callers |-> 0]

SpecSWRate == InitSWRate /\ [][NextSWRate]_vars

\* ------------------------------ the sliding-window policy, step by step
\* SlidingWindowBreaker.observe run by goroutines whose atomic operations
\* interleave, each goroutine making one observation on a breaker found with
\* some counts in its buckets. The observer's locals are kept in fret:
\* cs (currentStartMicros), won (the compare-and-swap succeeded), tmp (what
\* current*.Swap(0) returned), lastF, lastS, curF, curS (the four locals of
\* observe); observed holds failure and stv holds halfOpen.
NoLocals == [cs |-> 0, won |-> FALSE, tmp |-> 0, lastF |-> 0, lastS |-> 0,
             curF |-> 0, curS |-> 0]

\* faulty variant of CompareAndSwap: a plain store
CompareAndSwapBlind(cur, old, new) == [ok |-> TRUE, val |-> new]

\* atomic CompareAndSwap(old, new) on a location holding cur
CompareAndSwap(cur, old, new) ==
    IF cur = old THEN [ok |-> TRUE, val |-> new] ELSE [ok |-> FALSE, val |-> cur]

\* faulty variant of AtomicAdd: the increment is lost on a non-empty counter
AtomicAddLossy(cur, delta) == IF cur = 0 THEN delta ELSE cur

\* atomic Add(delta): the new value
AtomicAdd(cur, delta) == cur + delta

\* the early return of a probe's success
SWStepProbe(c, failure) ==
    /\ pc[c] = "idle"
    /\ ~failure
    /\ observed' = [observed EXCEPT ![c] = <<failure>>]
    /\ stv' = [stv EXCEPT ![c] = StateHalfOpen]
    /\ openedAt' = 0
    /\ pc' = [pc EXCEPT ![c] = "done"]
    /\ UNCHANGED <<now, cfg, metrics, policyVars, sem, wpc, pctx, cause, fret, result,
                   once, fcalls, started, readAt>>

\* currentStartMicros := s.currentStart.Load()
SWStepLoadStart(c, halfOpen, failure) ==
    /\ pc[c] = "idle"
    /\ failure \/ ~halfOpen
    /\ observed' = [observed EXCEPT ![c] = <<failure>>]
    /\ stv' = [stv EXCEPT ![c] = IF halfOpen THEN StateHalfOpen
                                 ELSE StateClosed]
    /\ fret' = [fret EXCEPT ![c] = [NoLocals EXCEPT !.cs = currentStart]]
    /\ pc' = [pc EXCEPT ![c] = "loaded"]
    /\ UNCHANGED <<now, cfg, metrics, openedAt, policyVars, sem, wpc, pctx, cause,
                   result, once, fcalls, started, readAt>>

\* sinceMicros(currentStartMicros) > s.windowSize
SWStepSince(c) ==
    /\ pc[c] = "loaded"
    /\ pc' = [pc EXCEPT ![c] = IF now - fret[c].cs > WindowSize THEN "cas"
                               ELSE "loadF"]
    /\ UNCHANGED <<now, cfg, metrics, openedAt, policyVars, sem, stv, wpc, pctx, cause,
                   fret, result, once, observed, fcalls, started, readAt>>

\* s.currentStart.CompareAndSwap(currentStartMicros, time.Now().UnixMicro())
SWStepCAS(c) ==
    /\ pc[c] = "cas"
    /\ LET r == CompareAndSwap(currentStart, fret[c].cs, now)
       IN  /\ currentStart' = r.val
           /\ fret' = [fret EXCEPT ![c].won = r.ok]
           /\ pc' = [pc EXCEPT ![c] = IF r.ok THEN "swapF" ELSE "loadF"]
    /\ UNCHANGED <<now, cfg, metrics, openedAt, failureRate, currentSuccessCount,
                   currentFailureCount, lastSuccessCount, lastFailureCount,
                   sem, stv, wpc, pctx, cause, result, once, observed, fcalls,
                   started, readAt>>

\* the rotation of the winner, one atomic operation at a time:
\* lastFailureCount = s.lastFailureCount.Swap(s.currentFailureCount.Swap(0)),
\* the same for the successes, and s.openedAt.Store(0)
SWStepRotate(c) ==
    /\ pc[c] \in {"swapF", "swapLastF", "swapS", "swapLastS", "storeOA"}
    /\ CASE pc[c] = "swapF" ->
              /\ fret' = [fret EXCEPT ![c].tmp = currentFailureCount]
              /\ currentFailureCount' = 0
              /\ pc' = [pc EXCEPT ![c] = "swapLastF"]
              /\ UNCHANGED <<openedAt, currentSuccessCount, lastSuccessCount,
                             lastFailureCount>>
         [] pc[c] = "swapLastF" ->
              /\ fret' = [fret EXCEPT ![c].lastF = lastFailureCount]
              /\ lastFailureCount' = fret[c].tmp
              /\ pc' = [pc EXCEPT ![c] = "swapS"]
              /\ UNCHANGED <<openedAt, currentSuccessCount, lastSuccessCount,
                             currentFailureCount>>
         [] pc[c] = "swapS" ->
              /\ fret' = [fret EXCEPT ![c].tmp = currentSuccessCount]
              /\ currentSuccessCount' = 0
              /\ pc' = [pc EXCEPT ![c] = "swapLastS"]
              /\ UNCHANGED <<openedAt, currentFailureCount, lastSuccessCount,
                             lastFailureCount>>
         [] pc[c] = "swapLastS" ->
              /\ fret' = [fret EXCEPT ![c].lastS = lastSuccessCount]
              /\ lastSuccessCount' = fret[c].tmp
              /\ pc' = [pc EXCEPT ![c] = "storeOA"]
              /\ UNCHANGED <<openedAt, currentSuccessCount,
                             currentFailureCount, lastFailureCount>>
         [] pc[c] = "storeOA" ->
              /\ openedAt' = 0
              /\ pc' = [pc EXCEPT ![c] = "add"]
              /\ UNCHANGED <<fret, currentSuccessCount, currentFailureCount,
                             lastSuccessCount, lastFailureCount>>
    /\ UNCHANGED <<now, cfg, metrics, failureRate, currentStart, sem, stv, wpc, pctx,
                   cause, result, once, observed, fcalls, started, readAt>>

\* the loads of an observer that does not rotate
SWStepLoadLast(c) ==
    /\ pc[c] \in {"loadF", "loadS"}
    /\ IF pc[c] = "loadF"
       THEN /\ fret' = [fret EXCEPT ![c].lastF = lastFailureCount]
            /\ pc' = [pc EXCEPT ![c] = "loadS"]
       ELSE /\ fret' = [fret EXCEPT ![c].lastS = lastSuccessCount]
            /\ pc' = [pc EXCEPT ![c] = "add"]
    /\ UNCHANGED <<now, cfg, metrics, openedAt, policyVars, sem, stv, wpc, pctx, cause,
                   result, once, observed, fcalls, started, readAt>>

\* s.currentFailureCount.Add(1) or s.currentSuccessCount.Add(1)
SWStepAdd(c) ==
    /\ pc[c] = "add"
    /\ IF observed[c][1]
       THEN /\ currentFailureCount' = AtomicAdd(currentFailureCount, 1)
            /\ fret' = [fret EXCEPT ![c].curF =
                                       AtomicAdd(currentFailureCount, 1)]
            /\ UNCHANGED currentSuccessCount
       ELSE /\ currentSuccessCount' = AtomicAdd(currentSuccessCount, 1)
            /\ fret' = [fret EXCEPT ![c].curS =
                                       AtomicAdd(currentSuccessCount, 1)]
            /\ UNCHANGED currentFailureCount
    /\ pc' = [pc EXCEPT ![c] = "loadOther"]
    /\ started' = started + 1
    /\ UNCHANGED <<now, cfg, metrics, openedAt, failureRate, currentStart,
                   lastSuccessCount, lastFailureCount, sem, stv, wpc, pctx,
                   cause, result, once, observed, fcalls, readAt>>

\* the Load of the counter that was not incremented
SWStepLoadOther(c) ==
    /\ pc[c] = "loadOther"
    /\ fret' = IF observed[c][1]
               THEN [fret EXCEPT ![c].curS = currentSuccessCount]
               ELSE [fret EXCEPT ![c].curF = currentFailureCount]
    /\ pc' = [pc EXCEPT ![c] = "verdict"]
    /\ UNCHANGED <<now, cfg, metrics, openedAt, policyVars, sem, stv, wpc, pctx, cause,
                   result, once, observed, fcalls, started, readAt>>

\* the weighted rate from the locals and the verdict
SWStepVerdict(c) ==
    /\ pc[c] = "verdict"
    /\ LET l == fret[c]
           elapsed == now - currentStart
           num == SWWeightedFailures(l.lastF, l.curF, elapsed)
           den == SWWeightedTotal(l.lastF, l.lastS, l.curF, l.curS, elapsed)
       IN  openedAt' = IF SWRateAbove(num, den) THEN setOpenedAt(openedAt, now)
                       ELSE setOpenedAt(openedAt, 0)
    /\ pc' = [pc EXCEPT ![c] = "done"]
    /\ UNCHANGED <<now, cfg, metrics, policyVars, sem, stv, wpc, pctx, cause, fret,
                   result, once, observed, fcalls, started, readAt>>

NextSWSteps ==
    \/ Tick
    \/ \E c \in Callers, failure \in BOOLEAN : SWStepProbe(c, failure)
    \/ \E c \in Callers, halfOpen \in BOOLEAN, failure \in BOOLEAN :
           SWStepLoadStart(c, halfOpen, failure)
    \/ \E c \in Callers : SWStepSince(c)
    \/ \E c \in Callers : SWStepCAS(c)
    \/ \E c \in Callers : SWStepRotate(c)
    \/ \E c \in Callers : SWStepLoadLast(c)
    \/ \E c \in Callers : SWStepAdd(c)
    \/ \E c \in Callers : SWStepLoadOther(c)
    \/ \E c \in Callers : SWStepVerdict(c)

\* the counts a breaker may hold from earlier observations
EarlierCounts == 0..1

\* a breaker whose current bucket has just become older than windowSize
InitSWSteps ==
    /\ now = Now0
    /\ currentStart = 0
    /\ currentSuccessCount \in EarlierCounts
    /\ currentFailureCount \in EarlierCounts
    /\ lastSuccessCount \in EarlierCounts
    /\ lastFailureCount \in EarlierCounts
    /\ openedAt = 0
    /\ failureRate = Tiny
    /\ metrics = NoMetrics
    /\ cfg \in [policy : {"sw"}, limiter : {"none"},
                 classifier : {"default"}, sampleCount : {SampleCount},
                 threshold : {ThresholdNum}, halfOpenDelay : {HalfOpenDelay}]
    /\ sem = 0
    /\ pc = [c \in Callers |-> "idle"]
    /\ stv = [c \in Callers |-> StateClosed]
    /\ wpc = [c \in Callers |-> "none"]
    /\ pctx = [c \in Callers |-> "gone"]
    /\ cause = [c \in Callers |-> "none"]
    /\ fret = [c \in Callers |-> NoLocals]
    /\ result = [c \in Callers |-> NoResult]
    /\ once = [c \in Callers |-> FALSE]
    /\ observed = [c \in Callers |-> << >>]
    /\ fcalls = [c \in Callers |-> 0]
    /\ started = 0
    /\ readAt = [c \in Callers |-> 0]

SpecSWSteps == InitSWSteps /\ [][NextSWSteps]_vars

\* ------------------------------------------------------------ NewCircuit
\* NewCircuit(f, policy, options...) as a function of its arguments: the
\* options it ends with, or ConfigError
ConfigError == "ConfigError"

WithHalfOpenDelay(delay) == [kind |-> "WithHalfOpenDelay", delay |-> delay]

WithFailureCondition(condition) ==
    [kind |-> "WithFailureCondition", condition |-> condition]

\* opt.apply(&options)
OptionApply(o, opt) ==
    IF opt.kind = "WithHalfOpenDelay"
    THEN [o EXCEPT !.halfOpenDelay = opt.delay]
    ELSE [o EXCEPT !.isFailure = opt.condition]

\* each option in order
RECURSIVE ApplyOptions(_, _)
ApplyOptions(o, opts) ==
    IF opts = << >> THEN o
    ELSE ApplyOptions(OptionApply(o, Head(opts)), Tail(opts))

\* what applying the policy answers: the options and an error
Applied(o, err) == [o |-> o, err |-> err]

\* faulty variant of PolicyApply: the sliding window leaves the delay alone
PolicyApplyNoCoercion(policy, threshold, o) ==
    IF policy = "none" THEN Applied(o, "nil")
    ELSE IF threshold < 0 \/ threshold > ThresholdDen
    THEN Applied(o, ConfigError)
    ELSE IF policy = "ewma"
    THEN Applied(o, IF o.halfOpenDelay = 0 THEN ConfigError ELSE "nil")
    ELSE Applied(o, "nil")

\* the policy applied as the last option: it validates the combined settings
\* (threshold in [0, 1], EWMA needs a delay) and the sliding window coerces
\* the delay to its window size
PolicyApply(policy, threshold, o) ==
    IF policy = "none" THEN Applied(o, "nil")
    ELSE IF threshold < 0 \/ threshold > ThresholdDen
    THEN Applied(o, ConfigError)
    ELSE IF policy = "ewma"
    THEN Applied(o, IF o.halfOpenDelay = 0 THEN ConfigError ELSE "nil")
    ELSE Applied([o EXCEPT !.halfOpenDelay =
                      IF @ = 0 \/ @ > WindowSize THEN WindowSize ELSE @],
                 "nil")

\* the defaults NewCircuit starts from
DefaultOptions == [isFailure |-> "default", halfOpenDelay |-> 0]

\* faulty variant of NewCircuit: the policy validates before the options
NewCircuitValidatesFirst(policy, threshold, opts) ==
    LET r == PolicyApply(policy, threshold, DefaultOptions)
    IN  Applied(ApplyOptions(r.o, opts), r.err)

NewCircuit(policy, threshold, opts) ==
    PolicyApply(policy, threshold, ApplyOptions(DefaultOptions, opts))

\* the options a caller may pass, in any order
Options ==
    {WithHalfOpenDelay(d) : d \in 0..(HalfOpenDelay + 1)}
        \cup {WithFailureCondition("ignore")}

\* a goroutine constructs a circuit from the arguments in cfg
NewCircuitCall(c) ==
    /\ pc[c] = "idle"
    /\ pc' = [pc EXCEPT ![c] = "done"]
    /\ LET r == NewCircuit(cfg.policy, cfg.threshold, cfg.opts)
       IN  result' = [result EXCEPT ![c] =
                        IF r.err # "nil"
                        THEN [out |-> "zero", err |-> r.err, panic |-> FALSE]
                        ELSE [out |-> r.o, err |-> "nil", panic |-> FALSE]]
    /\ UNCHANGED <<now, cfg, metrics, openedAt, policyVars, sem, stv, wpc, pctx, cause,
                   fret, once, observed, fcalls, started, readAt>>

NextNew == \E c \in Callers : NewCircuitCall(c)

\* any policy, thresholds inside and outside [0, 1], up to two options
InitNew ==
    /\ InitState
    /\ metrics = NoMetrics
    /\ cfg \in [policy : {"none", "ewma", "sw"}, limiter : {"none"},
                 classifier : {"default"}, sampleCount : {SampleCount},
                 threshold : {-1, 0, ThresholdNum, ThresholdDen,
                              ThresholdDen + 1},
                 halfOpenDelay : {0},
                 opts : {<< >>} \cup {<<a>> : a \in Options}
                          \cup {<<a, b>> : a \in Options, b \in Options}]

SpecNew == InitNew /\ [][NextNew]_vars

\* ------------------------------------------------------------ middlewares
\* an observer factory is the list of its layers from the outermost to the
\* innermost; the circuit's own factory is the last one
CoreFactory == <<[name |-> "circuit", kind |-> "circuit"]>>

\* faulty variant of WithBreakerMiddleware: the new layer goes next to the core
WithBreakerMiddlewareInside(factory, bm) ==
    SubSeq(factory, 1, Len(factory) - 1) \o <<bm>> \o CoreFactory

\* WithBreakerMiddleware(bm): o.observerFactory = bm(o.observerFactory)
WithBreakerMiddleware(factory, bm) == <<bm>> \o factory

\* the options WithBreakerMiddleware(m1), WithBreakerMiddleware(m2), ...
\* applied in order to the circuit's own factory
RECURSIVE ApplyMiddlewares(_, _)
ApplyMiddlewares(factory, kinds) ==
    IF kinds = << >> THEN factory
    ELSE ApplyMiddlewares(
             WithBreakerMiddleware(
                 factory,
                 [name |-> IF Len(factory) = 1 THEN "m1" ELSE "m2",
                  kind |-> Head(kinds)]),
             Tail(kinds))

ObserverFactory == ApplyMiddlewares(CoreFactory, cfg.mws)

\* errToCause: the label of the dropped-calls counter
errToCause(err) ==
    IF err = ErrCircuitOpen THEN "circuit_open"
    ELSE IF err = ErrConcurrencyLimitReached THEN "concurrency_limit"
    ELSE "other"

\* the run of a layer's ObserverForCall: the error it answers, the layers
\* invoked in the order of their invocation, the semaphore afterwards and the
\* dropped-calls counters incremented
Entered(layer, r) == [r EXCEPT !.consulted = <<layer.name>> \o @]

\* ObserverForCall of layer i of the factory, with state the circuit's state
\* for the call and s the semaphore's count
RECURSIVE LayerObserverForCall(_, _, _, _)
LayerObserverForCall(factory, i, state, s) ==
    LET layer == factory[i]
    IN  IF layer.kind = "circuit"
        THEN [err |-> IF state = StateOpen THEN ErrCircuitOpen ELSE "nil",
              consulted |-> <<layer.name>>, sem |-> s, dropped |-> {}]
        ELSE IF layer.kind = "limiter"
        THEN IF s < Limit
             THEN Entered(layer,
                          LayerObserverForCall(factory, i + 1, state, s + 1))
             ELSE [err |-> ErrConcurrencyLimitReached,
                   consulted |-> <<layer.name>>, sem |-> s, dropped |-> {}]
        ELSE LET r == LayerObserverForCall(factory, i + 1, state, s)
             IN  IF r.err # "nil"
                 THEN Entered(layer,
                              [r EXCEPT !.dropped =
                                   @ \cup {<<layer.name, errToCause(r.err)>>}])
                 ELSE Entered(layer, r)

\* Circuit.Call up to the factory's answer: the state for the call is read
\* and the outermost layer is asked for an observer
MWCall(c) ==
    /\ pc[c] = "idle"
    /\ InOrder(c)
    /\ LET st == State(openedAt, now, cfg.halfOpenDelay)
           r == LayerObserverForCall(ObserverFactory, 1, st, sem)
       IN  /\ stv' = [stv EXCEPT ![c] = st]
           /\ fret' = [fret EXCEPT ![c] = r]
           /\ sem' = r.sem
           /\ openedAt' = IF st = StateHalfOpen
                          THEN setOpenedAt(openedAt, now) ELSE openedAt
           /\ IF r.err # "nil"
              THEN /\ pc' = [pc EXCEPT ![c] = "done"]
                   /\ result' = [result EXCEPT ![c] =
                                    [out |-> "zero", err |-> r.err,
                                     panic |-> FALSE]]
              ELSE /\ pc' = [pc EXCEPT ![c] = "called"]
                   /\ UNCHANGED result
    /\ UNCHANGED <<now, cfg, metrics, policyVars, wpc, pctx, cause, once, observed,
                   fcalls, started, readAt>>

\* the wrapped function returns and the observer of an admitted call fires:
\* every layer's observer runs, the limiter's gives its slot back
MWObserve(c, failure) ==
    /\ pc[c] = "called"
    /\ pc' = [pc EXCEPT ![c] = "done"]
    /\ result' = [result EXCEPT ![c] =
                     IF failure
                     THEN [out |-> "zero", err |-> "sentinel", panic |-> FALSE]
                     ELSE [out |-> "val", err |-> "nil", panic |-> FALSE]]
    /\ observed' = [observed EXCEPT ![c] = Append(@, failure)]
    /\ BreakerObserve(c, failure)
    /\ sem' = IF \E i \in 1..Len(ObserverFactory) :
                     ObserverFactory[i].kind = "limiter"
              THEN sem - 1 ELSE sem
    /\ UNCHANGED <<now, cfg, metrics, stv, wpc, pctx, cause, fret, once, fcalls,
                   started, readAt>>

NextMW ==
    \/ Tick
    \/ \E c \in Callers : MWCall(c)
    \/ \E c \in Callers, failure \in BOOLEAN : MWObserve(c, failure)

\* a circuit built with two middlewares, at most one of them a limiter
InitMW ==
    /\ InitState
    /\ metrics = NoMetrics
    /\ cfg \in [policy : {"ewma"}, limiter : {"none"},
                 classifier : {"default"}, sampleCount : {SampleCount},
                 threshold : {ThresholdNum}, halfOpenDelay : {HalfOpenDelay},
                 mws : {<<"limiter", "metrics">>, <<"metrics", "limiter">>,
                        <<"metrics", "metrics">>}]

SpecMW == InitMW /\ [][NextMW]_vars

\* ------------------------------------------------- the metrics middleware
\* faulty variant of wrappedObserve: the inverted flag of the histogram's
\* label is also what the inner observer is given
wrappedObserveInverted(m, b) ==
    [metrics |-> [m EXCEPT !.callDurations[~b] = @ + 1,
                           !.inflightCalls = @ - 1],
     forwarded |-> <<~b>>]

\* the observer wrappedMiddleware.ObserverForCall returns, called with b: the
\* collectors it leaves behind and the calls it makes to the inner observer
wrappedObserve(m, b) ==
    [metrics |-> [m EXCEPT !.callDurations[~b] = @ + 1,
                           !.inflightCalls = @ - 1],
     forwarded |-> <<b>>]

\* wrappedMiddleware.ObserverForCall, given what wm.next.ObserverForCall
\* answered: the error it returns ("nil" with an observer) and the collectors
wrappedObserverForCall(m, inner) ==
    IF inner.err # "nil"
    THEN [err |-> inner.err,
          metrics |-> [m EXCEPT !.droppedCalls[errToCause(inner.err)] = @ + 1]]
    ELSE [err |-> "nil", metrics |-> [m EXCEPT !.inflightCalls = @ + 1]]

\* the factory the Middleware wraps: the layers below the outermost one
InnerObserverForCall(state, s) ==
    LayerObserverForCall(ObserverFactory, 2, state, s)

\* Circuit.Call up to the factory's answer, the Middleware outermost
MetricsCall(c) ==
    /\ pc[c] = "idle"
    /\ InOrder(c)
    /\ LET st == State(openedAt, now, cfg.halfOpenDelay)
           inner == InnerObserverForCall(st, sem)
           r == wrappedObserverForCall(metrics, inner)
       IN  /\ stv' = [stv EXCEPT ![c] = st]
           /\ fret' = [fret EXCEPT ![c] = inner]
           /\ sem' = inner.sem
           /\ metrics' = r.metrics
           /\ openedAt' = IF st = StateHalfOpen
                          THEN setOpenedAt(openedAt, now) ELSE openedAt
           /\ IF r.err # "nil"
              THEN /\ pc' = [pc EXCEPT ![c] = "done"]
                   /\ result' = [result EXCEPT ![c] =
                                    [out |-> "zero", err |-> r.err,
                                     panic |-> FALSE]]
              ELSE /\ pc' = [pc EXCEPT ![c] = "called"]
                   /\ UNCHANGED result
    /\ UNCHANGED <<now, cfg, policyVars, wpc, pctx, cause, once, observed,
                   fcalls, started, readAt>>

\* the wrapped function returns and the call's one-shot observer fires with
\* the failure flag: the Middleware's observer runs, then the inner ones
MetricsObserve(c, failure) ==
    /\ pc[c] = "called"
    /\ pc' = [pc EXCEPT ![c] = "done"]
    /\ result' = [result EXCEPT ![c] =
                     IF failure
                     THEN [out |-> "zero", err |-> "sentinel", panic |-> FALSE]
                     ELSE [out |-> "val", err |-> "nil", panic |-> FALSE]]
    /\ LET o == wrappedObserve(metrics, failure)
       IN  /\ metrics' = o.metrics
           /\ observed' = [observed EXCEPT ![c] = @ \o o.forwarded]
           /\ BreakerObserve(c, o.forwarded[1])
    /\ sem' = IF \E i \in 1..Len(ObserverFactory) :
                     ObserverFactory[i].kind = "limiter"
              THEN sem - 1 ELSE sem
    /\ UNCHANGED <<now, cfg, stv, wpc, pctx, cause, fret, once, fcalls,
                   started, readAt>>

NextMetrics ==
    \/ Tick
    \/ \E c \in Callers : MetricsCall(c)
    \/ \E c \in Callers, failure \in BOOLEAN : MetricsObserve(c, failure)

\* a circuit whose outermost middleware is the Middleware, around the
\* circuit's own factory or around a non-blocking limiter
InitMetrics ==
    /\ InitState
    /\ metrics = NoMetrics
    /\ cfg \in [policy : {"ewma", "sw"}, limiter : {"none"},
                 classifier : {"default"}, sampleCount : {SampleCount},
                 threshold : {ThresholdNum}, halfOpenDelay : {HalfOpenDelay},
                 mws : {<<"metrics">>, <<"limiter", "metrics">>}]

SpecMetrics == InitMetrics /\ [][NextMetrics]_vars

\* ------------------------------------------- the limiter in front of a mock
\* Test_ConcurrencyLimiter: the limiter wraps a factory that always gives an
\* observer, whose Observe(shouldPanic) panics when told to

\* a goroutine of the test asks the limiter for an observer
MockCall(c, ctx) ==
    /\ \/ pc[c] = "idle" /\ InOrder(c)
       \/ pc[c] = "done"
    /\ started < MaxCalls
    /\ started' = started + 1
    /\ pc' = [pc EXCEPT ![c] = "factory"]
    /\ pctx' = [pctx EXCEPT ![c] = ctx]
    /\ result' = [result EXCEPT ![c] = NoResult]
    /\ UNCHANGED <<now, cfg, metrics, openedAt, policyVars, sem, stv, wpc, cause, fret,
                   once, observed, fcalls, readAt>>

\* of.ObserverForCall(ctx, StateClosed) on the limiter
MockObserverForCall(c) ==
    /\ pc[c] = "factory"
    /\ LimiterObserverForCall(c)
    /\ UNCHANGED <<now, cfg, metrics, stv, fret, started>>

\* faulty variant of LimiterReleaseAfter: Release follows Observe without
\* defer, so a panic of the inner Observe skips it
LimiterReleaseUnlessPanic(panicked) == IF panicked THEN sem ELSE LimiterRelease

\* the limiter's wrapped observer, defer cl.sem.Release(1); o.Observe(b): the
\* slots held once it has run, whether the inner Observe panicked or not
LimiterReleaseAfter(panicked) == LimiterRelease

\* o.Observe(wantPanic) on the observer the limiter returned
MockObserve(c, shouldPanic) ==
    /\ pc[c] = "running"
    /\ sem' = LimiterReleaseAfter(shouldPanic)
    /\ pc' = [pc EXCEPT ![c] = "done"]
    /\ result' = [result EXCEPT ![c] = [out |-> "zero", err |-> "nil",
                                        panic |-> shouldPanic]]
    /\ pctx' = [pctx EXCEPT ![c] = "gone"]
    /\ UNCHANGED <<now, cfg, metrics, openedAt, policyVars, stv, wpc, cause, fret,
                   once, observed, fcalls, started, readAt>>

NextMock ==
    \/ Tick
    \/ \E c \in Callers, e \in CtxErrs : CancelCtx(c, e)
    \/ \E c \in Callers, ctx \in {"live"} \cup CtxErrs : MockCall(c, ctx)
    \/ \E c \in Callers : MockObserverForCall(c)
    \/ \E c \in Callers, shouldPanic \in BOOLEAN : MockObserve(c, shouldPanic)

\* hoglet.ConcurrencyLimiter(Limit, block) applied to mockObserverFactory{}
InitMock ==
    /\ InitState
    /\ metrics = NoMetrics
    /\ cfg \in [policy : {"mock"}, limiter : {"nonblock", "block"},
                 classifier : {"default"}, sampleCount : {SampleCount},
                 threshold : {ThresholdNum}, halfOpenDelay : {HalfOpenDelay}]

SpecMock == InitMock /\ [][NextMock]_vars

\* faulty variant of StateCall: reading the state re-stamps a half-open
\* circuit, as the call path does
StateCallRestamps(c) ==
    /\ pc[c] = "idle"
    /\ stv' = [stv EXCEPT ![c] = State(openedAt, now, cfg.halfOpenDelay)]
    /\ openedAt' = IF State(openedAt, now, cfg.halfOpenDelay) = StateHalfOpen
                   THEN now ELSE openedAt
    /\ pc' = [pc EXCEPT ![c] = "done"]
    /\ UNCHANGED <<now, cfg, metrics, policyVars, sem, wpc, pctx, cause, fret,
                   result, once, observed, fcalls, started, readAt>>

\* --------------------------------------------------------- State() alone
\* c.State() called by an observer of the circuit, on any openedAt, clock and
\* halfOpenDelay
StateCall(c) ==
    /\ pc[c] = "idle"
    /\ stv' = [stv EXCEPT ![c] = State(openedAt, now, cfg.halfOpenDelay)]
    /\ pc' = [pc EXCEPT ![c] = "done"]
    /\ UNCHANGED <<now, cfg, metrics, openedAt, policyVars, sem, wpc, pctx, cause, fret,
                   result, once, observed, fcalls, started, readAt>>

NextState == \E c \in Callers : StateCall(c)

\* a circuit found with any openedAt, at any time, built with any delay
InitAnyState ==
    /\ now \in 0..MaxTime
    /\ openedAt \in 0..MaxTime
    /\ metrics = NoMetrics
    /\ cfg \in [policy : {"ewma"}, limiter : {"none"},
                 classifier : {"default"}, sampleCount : {SampleCount},
                 threshold : {ThresholdNum}, halfOpenDelay : 0..HalfOpenDelay]
    /\ failureRate = Tiny
    /\ currentStart = 0
    /\ currentSuccessCount = 0
    /\ currentFailureCount = 0
    /\ lastSuccessCount = 0
    /\ lastFailureCount = 0
    /\ sem = 0
    /\ pc = [c \in Callers |-> "idle"]
    /\ stv = [c \in Callers |-> StateClosed]
    /\ wpc = [c \in Callers |-> "none"]
    /\ pctx = [c \in Callers |-> "gone"]
    /\ cause = [c \in Callers |-> "none"]
    /\ fret = [c \in Callers |-> NoResult]
    /\ result = [c \in Callers |-> NoResult]
    /\ once = [c \in Callers |-> FALSE]
    /\ observed = [c \in Callers |-> << >>]
    /\ fcalls = [c \in Callers |-> 0]
    /\ started = 0
    /\ readAt = [c \in Callers |-> 0]

SpecState == InitAnyState /\ [][NextState]_vars

\* ------------------------------------------------------------- properties
AdmissionErrs ==
    {ErrCircuitOpen, ErrConcurrencyLimitReached}
        \cup {ErrWaitingForSlot(e) : e \in CtxErrs}

C2_OpenRefusesWithoutCalling ==
    \A c \in Callers :
        /\ fcalls[c] <= 1
        /\ pc[c] = "running" => fcalls[c] = 1
        /\ (pc[c] \in {"running", "done"} /\ stv[c] = StateOpen)
               => /\ pc[c] = "done"
                  /\ result[c].err = ErrCircuitOpen
                  /\ fcalls[c] = 0
        /\ pc[c] = "done"
               => \/ fcalls[c] = 0 /\ result[c].err \in AdmissionErrs
                                   /\ fret[c] = NoResult
                  \/ fcalls[c] = 1 /\ result[c].err \notin AdmissionErrs
                                   /\ fret[c] # NoResult

\* the circuit was opened by a failure and a later call was turned away
C2_Witness ==
    \E c \in Callers :
        /\ pc[c] = "done" /\ stv[c] = StateOpen
        /\ result[c].err = ErrCircuitOpen /\ fcalls[c] = 0
        /\ State(openedAt, now, cfg.halfOpenDelay) = StateOpen

\* C3: a Call refused at admission (ErrCircuitOpen, ErrConcurrencyLimitReached
\* or ErrWaitingForSlot) creates no observer and leaves the policy's state as
\* it was: the EWMA failure rate and the four sliding-window counters.
C3_RefusalLeavesPolicy ==
    [][\A c \in Callers :
          (pc[c] = "factory" /\ pc'[c] = "done")
             => /\ result'[c].err \in AdmissionErrs
                /\ failureRate' = failureRate
                /\ currentSuccessCount' = currentSuccessCount
                /\ currentFailureCount' = currentFailureCount
                /\ lastSuccessCount' = lastSuccessCount
                /\ lastFailureCount' = lastFailureCount
                /\ once'[c] = FALSE /\ observed'[c] = << >>
                /\ wpc'[c] = "none"]_vars

\* calls were refused by the limiter and by the open circuit after the policy
\* had recorded something
C3_Witness ==
    /\ \E c \in Callers :
          /\ pc[c] = "done"
          /\ result[c].err \in AdmissionErrs \ {ErrCircuitOpen}
    /\ \/ failureRate # Tiny
       \/ currentSuccessCount + currentFailureCount > 0

\* a Call reads the circuit's state (stateForCall, first half)
ReadsState(d) == pc[d] \in {"idle", "done"} /\ pc'[d] \notin {"idle", "done"}

\* call c is an unresolved probe that re-stamped less than halfOpenDelay ago
OpenProbe(c) ==
    /\ stv[c] = StateHalfOpen
    /\ pc[c] \in {"factory", "running"}
    /\ ~once[c]
    /\ now - readAt[c] < cfg.halfOpenDelay

\* C4: a Call that computes HALF_OPEN re-stamps openedAt to now(), so that a
\* Call reading the state after the re-stamp and before the probe's observer
\* resolves sees OPEN and is refused: while a probe that re-stamped less than
\* halfOpenDelay ago is unresolved, no other Call computes HALF_OPEN.
C4_RestampBlocksLaterCallers ==
    [][\A c, d \in Callers :
          (c # d /\ OpenProbe(c) /\ ReadsState(d))
             => stv'[d] # StateHalfOpen]_vars

\* C5: a probe admitted in HALF_OPEN and observed as a non-failure closes the
\* circuit under both policies: openedAt becomes 0, the state is CLOSED, and
\* a Call that reads CLOSED is admitted.
C5_ProbeSuccessCloses ==
    /\ [][\A c \in Callers :
             (stv[c] = StateHalfOpen /\ observed[c] = << >>
                 /\ observed'[c] = <<FALSE>>)
                => /\ openedAt' = 0
                   /\ State(openedAt', now', cfg.halfOpenDelay) = StateClosed]_vars
    /\ [](\A d \in Callers :
             (stv[d] = StateClosed /\ pc[d] \in {"running", "done"})
                => fcalls[d] = 1 /\ result[d].err # ErrCircuitOpen)

\* a probe succeeded, the circuit is closed and another call has been admitted
\* in the CLOSED state since
C5_Witness ==
    \E c, d \in Callers :
        /\ c # d
        /\ stv[c] = StateHalfOpen /\ observed[c] = <<FALSE>> /\ pc[c] = "done"
        /\ stv[d] = StateClosed /\ pc[d] = "running" /\ readAt[d] > Now0
        /\ openedAt = 0
        /\ started = MaxCalls

\* C6: a probe admitted in HALF_OPEN and observed as a failure leaves the
\* circuit open: when the circuit has not been closed in the meantime and less
\* than halfOpenDelay has passed since the probe read the state, the state
\* right after the observation is OPEN, so the next Call is refused with
\* ErrCircuitOpen.
C6_ProbeFailureStaysOpen ==
    [][\A c \in Callers :
          (stv[c] = StateHalfOpen /\ observed[c] = << >>
              /\ observed'[c] = <<TRUE>>
              /\ openedAt # 0
              /\ now - readAt[c] < cfg.halfOpenDelay)
             => State(openedAt', now', cfg.halfOpenDelay) = StateOpen]_vars

C9_ResultIsFsResult ==
    \A c \in Callers :
        (pc[c] = "done" /\ fcalls[c] = 1)
           => /\ result[c] = fret[c]
              /\ result[c].err \notin AdmissionErrs

\* the watcher recorded a cancellation as a failure, which opened the
\* circuit, and f still returned its value to the caller
C9_Witness ==
    \E c \in Callers :
        /\ pc[c] = "done" /\ wpc[c] = "done"
        /\ result[c].out = "val" /\ result[c].err = "nil"
        /\ observed[c] = <<TRUE>>
        /\ State(openedAt, now, cfg.halfOpenDelay) = StateOpen

\* C10: when ctx is cancelled or its deadline expires while f is running, the
\* watcher can observe at once, without f returning, and what it observes
\* under the default classifier is a failure; f keeps running.
C10_CancelObservedWhileRunning ==
    /\ [](\A c \in Callers :
             (pc[c] = "running" /\ wpc[c] = "waiting" /\ cause[c] \in CtxErrs)
                => CtxDone(c))
    /\ [][\A c \in Callers :
             (pc[c] = "running" /\ wpc[c] = "waiting" /\ wpc'[c] = "done")
                => /\ cause[c] \in CtxErrs
                   /\ observed'[c] = <<TRUE>>
                   /\ pc'[c] = "running"]_vars

\* a call is still blocked in f, its cancellation has opened the circuit and
\* another caller has been refused
C10_Witness ==
    \E c, d \in Callers :
        /\ c # d
        /\ pc[c] = "running" /\ wpc[c] = "done" /\ observed[c] = <<TRUE>>
        /\ State(openedAt, now, cfg.halfOpenDelay) = StateOpen
        /\ pc[d] = "done" /\ result[d].err = ErrCircuitOpen
        /\ started = 2

ObservedAfterCancel(c) ==
    cause[c] = "Canceled" /\ observed[c] = << >> /\ observed'[c] # << >>

\* C12 (as stated): with the IgnoreContextCancelation classifier a call whose
\* context the caller cancelled is never observed as a failure, whichever of
\* the watcher and f's return is observed first and whatever error f returns
\* (calls in which f panics are left aside).
C12_CancelNeverFailure ==
    [][\A c \in Callers :
          (ObservedAfterCancel(c) /\ ~fret'[c].panic)
             => observed'[c] = <<FALSE>>]_vars

\* C12 (amended): with the IgnoreContextCancelation classifier a call whose
\* context the caller cancelled is never observed as a failure by the watcher;
\* when f's return is observed first it is a failure exactly when f panicked or
\* returned an error other than nil and context.Canceled itself.
C12_CancelFailureOnlyByOtherError ==
    [][\A c \in Callers :
          ObservedAfterCancel(c)
             => /\ wpc'[c] # wpc[c] => observed'[c] = <<FALSE>>
                /\ pc'[c] # pc[c]
                      => (observed'[c] = <<TRUE>>
                            <=> \/ fret'[c].panic
                                \/ fret'[c].err \notin {"nil", "Canceled"})]_vars

\* the caller cancelled, the watcher observed first, f then gave back
\* context.Canceled: one observation, not a failure, circuit closed
C12_Witness ==
    \E c \in Callers :
        /\ cfg.classifier = "ignore"
        /\ pc[c] = "done" /\ wpc[c] = "done"
        /\ fret[c].err = "Canceled"
        /\ observed[c] = <<FALSE>>
        /\ openedAt = 0

\* the calls admitted through the limiter whose observer has not been invoked
Held == {c \in Callers : fcalls[c] = 1 /\ ~once[c]}

C14_SlotsReleasedExactlyOnce == sem = Cardinality(Held)

C17_PanicReleasesSlot ==
    /\ [](sem = Cardinality({c \in Callers : pc[c] = "running"}))
    /\ [][\A c \in Callers :
             (pc[c] = "running" /\ pc'[c] = "done" /\ result'[c].panic)
                => sem' = sem - 1]_vars
    /\ [][\A c \in Callers :
             (pc[c] = "factory" /\ pc'[c] # "factory"
                 /\ Cardinality({d \in Callers : pc[d] = "running"}) < Limit)
                => pc'[c] = "running"]_vars

\* limit 1: one caller's Observe panicked, and the other caller, which came for
\* its observer after that, holds one
C17_Witness ==
    \E c, d \in Callers :
        /\ c # d
        /\ pc[c] = "done" /\ result[c].panic
        /\ pc[d] = "running"
        /\ started = 2

\* C18: once openedAt is non-zero a step leaves it as it is, stores 0 (a
\* close), or is the re-stamp of a half-open call storing the current time; in
\* particular an open verdict on an open circuit does not move it. The step
\* that opens a closed circuit stores its own time, so of several open
\* verdicts the first one's timestamp is the one kept.
C18_OpenedAtKeepsValue ==
    /\ [][openedAt # 0
             => \/ openedAt' = openedAt
                \/ openedAt' = 0
                \/ \E c \in Callers :
                       /\ pc[c] = "restamp" /\ pc'[c] = "factory"
                       /\ openedAt' = now]_vars
    /\ [][(openedAt = 0 /\ openedAt' # 0) => openedAt' = now]_vars

C21_NilBreakerNeverOpens ==
    /\ [](/\ openedAt = 0
          /\ State(openedAt, now, cfg.halfOpenDelay) = StateClosed
          /\ \A c \in Callers :
                 pc[c] = "done" => fcalls[c] = 1 /\ result[c] = fret[c])
    /\ [][\A c \in Callers :
             (pc[c] = "factory" /\ pc'[c] # "factory")
                => pc'[c] = "running" /\ fcalls'[c] = 1]_vars

\* three calls have ended, in a panic, in a cancellation observed as a failure
\* and in an error, and the circuit is closed
C21_Witness ==
    \E c, d \in Callers :
        /\ c # d
        /\ started = MaxCalls
        /\ pc[c] = "done" /\ result[c].panic /\ observed[c] = <<TRUE>>
        /\ pc[d] = "done" /\ result[d].err \in CtxErrs
        /\ observed[d] = <<TRUE>>
        /\ openedAt = 0

\* C22: an EWMA policy with threshold 0 leaves failureRate and openedAt as
\* they are in every observation, whatever is observed, so the circuit never
\* opens.
C22_ZeroThresholdNeverOpens ==
    /\ [][cfg.threshold = 0
             => failureRate' = failureRate /\ openedAt' = openedAt]_vars
    /\ [](cfg.threshold = 0 => openedAt = 0 /\ failureRate = Tiny)

\* threshold 0: MaxObs observations were made, the last ones failures
C22_Witness ==
    /\ cfg.threshold = 0
    /\ started = MaxObs
    /\ \A c \in Callers : observed[c] = <<TRUE>>

\* C23: whatever the sample count and the threshold, and however observations
\* interleave, failureRate is the never-observed start value or lies in [0, 1].
C23_RateInUnitInterval ==
    \/ failureRate = Tiny
    \/ /\ ~failureRate.tiny
       /\ failureRate.n >= 0
       /\ failureRate.n <= failureRate.d

\* C24: a successful half-open probe leaves the EWMA policy with failureRate =
\* threshold and the circuit closed; an observation that starts from that rate,
\* with a threshold in (0, 1) and a decay in (0, 1], opens the circuit if it is
\* a failure and closes it if it is a success.
C24_AfterProbeOneObservationDecides ==
    [][\A c \in Callers :
          (cfg.threshold > 0 /\ cfg.threshold < ThresholdDen
              /\ cfg.sampleCount >= 2)
             => /\ (pc[c] = "idle" /\ started' = started + 1 /\ pc' = pc
                       /\ observed'[c] = <<FALSE>>
                       /\ stv'[c] = StateHalfOpen)
                      => /\ failureRate' = Threshold
                         /\ openedAt' = 0
                /\ (pc[c] = "swapped" /\ pc'[c] = "idle"
                       /\ fret[c] = Threshold)
                      => /\ observed[c] = <<TRUE>> => openedAt' # 0
                         /\ observed[c] = <<FALSE>> => openedAt' = 0]_vars

\* the first observation was a probe's success, the second a failure, and the
\* circuit is open with the rate one failure away from the threshold
C24_Witness ==
    \E c \in Callers :
        /\ cfg.sampleCount = SampleCount
        /\ cfg.threshold = ThresholdNum
        /\ started = 2
        /\ pc[c] = "idle" /\ observed[c] = <<TRUE>>
        /\ failureRate = Blend(One, Threshold)
        /\ openedAt = now

\* C25: while the previous bucket of a sliding window is empty, the verdict of
\* an observation that is counted depends only on the failures f and successes
\* s counted in the current bucket: the circuit is open afterwards exactly
\* when f / (f + s) > threshold, in whatever order they came.
C25_OneWindowVerdict ==
    [][(started' = started + 1
          /\ currentFailureCount' + currentSuccessCount'
                # currentFailureCount + currentSuccessCount
          /\ lastFailureCount = 0 /\ lastSuccessCount = 0
          /\ lastFailureCount' = 0 /\ lastSuccessCount' = 0)
         => (openedAt' # 0
               <=> currentFailureCount' * ThresholdDen
                     > cfg.threshold
                         * (currentFailureCount' + currentSuccessCount'))]_vars

\* threshold 0.5: with one failure more than successes the circuit is open,
\* the previous bucket being empty
C25_Witness ==
    /\ cfg.threshold * 2 = ThresholdDen
    /\ lastFailureCount = 0 /\ lastSuccessCount = 0
    /\ currentSuccessCount = 1 /\ currentFailureCount = 2
    /\ openedAt # 0

\* C26: for any non-negative bucket counts and any time since currentStart,
\* when the weighted total is positive the weighted failures lie between 0
\* and the weighted total, that is the rate lies in [0, 1].
C26_RateInUnitInterval ==
    \A c \in Callers :
        (pc[c] = "done" /\ fret[c].den > 0)
           => fret[c].num >= 0 /\ fret[c].num <= fret[c].den

\* the delay of the last WithHalfOpenDelay among the options, 0 without one
RECURSIVE LastDelay(_)
LastDelay(opts) ==
    IF opts = << >> THEN 0
    ELSE LET last == opts[Len(opts)]
         IN  IF last.kind = "WithHalfOpenDelay" THEN last.delay
             ELSE LastDelay(SubSeq(opts, 1, Len(opts) - 1))

OnionOrder == <<"m2", "m1", "circuit">>

\* C29: a call consults the layers outermost first (m2, m1, the circuit's own
\* factory), each at most once, and stops at the first layer that refuses: the
\* layers inside it are not consulted, the call returns that layer's error,
\* and every metrics layer outside it has counted the error it saw.
C29_OnionOrder ==
    \A c \in Callers :
        pc[c] # "idle"
           => LET r == fret[c]
                  n == Len(r.consulted)
              IN  /\ n \in 1..3
                  /\ r.consulted = SubSeq(OnionOrder, 1, n)
                  /\ n < 3 => r.err # "nil"
                  /\ r.err # "nil"
                       => /\ pc[c] = "done" /\ result[c].err = r.err
                          /\ \A i \in 1..(n - 1) :
                                ObserverFactory[i].kind = "metrics"
                                   => <<ObserverFactory[i].name,
                                        errToCause(r.err)>> \in r.dropped
                  /\ r.err = "nil" => r.dropped = {}

\* the limiter m1 refuses under the metrics layer m2: m2 has counted the
\* refusal and the circuit's own factory was not asked
C29_Witness ==
    \E c \in Callers :
        /\ pc[c] = "done"
        /\ cfg.mws = <<"limiter", "metrics">>
        /\ fret[c].consulted = <<"m2", "m1">>
        /\ fret[c].err = ErrConcurrencyLimitReached
        /\ <<"m2", "concurrency_limit">> \in fret[c].dropped

\* C30: State() leaves openedAt and the policy's state as it found them,
\* whatever state it reports, HALF_OPEN included.
C30_StateIsPureRead ==
    [][\A c \in Callers :
          (pc[c] = "idle" /\ pc'[c] = "done")
             => /\ stv'[c] = State(openedAt, now, cfg.halfOpenDelay)
                /\ openedAt' = openedAt
                /\ UNCHANGED policyVars]_vars

\* State() has reported HALF_OPEN at a time after the circuit was opened
C30_Witness ==
    \E c \in Callers :
        /\ pc[c] = "done"
        /\ stv[c] = StateHalfOpen
        /\ openedAt # 0 /\ openedAt < now

\* C31: an EWMA observation that is neither skipped (threshold 0) nor a
\* probe's success stores r' = v*decay + prev*(1-decay), v being 1 for a
\* failure and 0 for a success, or r' = v when prev is the never-observed start
\* value, and leaves the circuit open exactly when r' > threshold.
C31_EWMABlendAndVerdict ==
    [][\A c \in Callers :
          (pc[c] = "swapped" /\ pc'[c] = "idle" /\ cfg.sampleCount >= 2)
             => LET v == IF observed[c][1] THEN One ELSE Zero
                    prev == fret[c]
                    r == IF prev = Tiny THEN v
                         ELSE RatAdd(RatMul(v, Decay),
                                     RatMul(prev, RatSub(One, Decay)))
                IN  /\ failureRate' = r
                    /\ openedAt' # 0 <=> FloatGt(r, Threshold)]_vars

\* C32: the weight observe gives to the previous bucket (here times
\* windowSize) is windowSize - elapsed while elapsed is at most windowSize,
\* so 1 right after a rotation and 0 at windowSize, and 0 beyond; it always
\* lies in [0, 1].
C32_LastWindowWeight ==
    \A c \in Callers :
        pc[c] = "done"
           => LET elapsed == now - currentStart
                  w == SWLastWindowWeight(elapsed)
              IN  /\ w >= 0 /\ w <= WindowSize
                  /\ w = IF elapsed <= WindowSize THEN WindowSize - elapsed
                         ELSE 0

\* C33: a compare-and-swap on currentStart that wins moves it forward by more
\* than windowSize, and of the observers that loaded the same currentStart at
\* most one has won and rotates; the others neither rotate nor touch the last
\* counters, and the winner's swaps move the current counts to the last ones.
C33_OneRotationPerBoundary ==
    /\ [][currentStart' # currentStart
             => /\ currentStart' - currentStart > WindowSize
                /\ \E c \in Callers :
                      /\ pc[c] = "cas" /\ pc'[c] = "swapF"
                      /\ \A d \in Callers \ {c} : pc'[d] = pc[d]]_vars
    /\ [](\A c, d \in Callers :
             (c # d /\ fret[c].won /\ fret[d].won)
                => fret[c].cs # fret[d].cs)
    /\ [][(lastFailureCount' # lastFailureCount
              \/ lastSuccessCount' # lastSuccessCount)
             => \E c \in Callers :
                   /\ fret[c].won
                   /\ pc[c] \in {"swapLastF", "swapLastS"}
                   /\ pc[c] = "swapLastF"
                        => lastFailureCount' = fret[c].tmp
                   /\ pc[c] = "swapLastS"
                        => lastSuccessCount' = fret[c].tmp]_vars

\* two observers loaded the same currentStart and both found it older than
\* windowSize; one has rotated, the other has lost and counted its observation
C33_Witness ==
    \E c, d \in Callers :
        /\ c # d
        /\ fret[c].cs = 0 /\ fret[d].cs = 0
        /\ fret[c].won /\ pc[c] = "done"
        /\ ~fret[d].won /\ pc[d] = "done" /\ observed[d] = <<TRUE>>
        /\ stv[d] = StateClosed
        /\ currentStart = Now0

\* the counts an observer holds or has taken out of the buckets: the value
\* between the two swaps of a rotation, and the last counts its swaps returned
InHand(c) ==
    LET l == fret[c]
    IN  (IF pc[c] \in {"swapLastF", "swapLastS"} THEN l.tmp ELSE 0)
          + (IF l.won /\ pc[c] \notin {"cas", "swapF", "swapLastF"}
             THEN l.lastF ELSE 0)
          + (IF l.won /\ pc[c] \in {"storeOA", "add", "loadOther", "verdict",
                                    "done"}
             THEN l.lastS ELSE 0)

RECURSIVE InHandUpTo(_)
InHandUpTo(n) == IF n = 0 THEN 0 ELSE InHand(n) + InHandUpTo(n - 1)

\* every observation counted so far: in a bucket, in a rotating observer's
\* hand, or rotated out
Accounted ==
    currentFailureCount + currentSuccessCount + lastFailureCount
        + lastSuccessCount + InHandUpTo(NumCallers)

\* observer c has passed its Add: every observation does, but a probe's success
Counted(c) ==
    \/ pc[c] \in {"loadOther", "verdict"}
    \/ pc[c] = "done" /\ ~(stv[c] = StateHalfOpen /\ observed[c] = <<FALSE>>)

\* C34: the four counters are never negative; the Add of an observation raises
\* the current counter of its kind by exactly 1 and leaves the other alone; and
\* the observations accounted for (in the current bucket, in the previous one,
\* in a rotation's hand or rotated out) grow by 1 with every Add and change in
\* no other step, rotations included; the Adds made are as many as the
\* observers that have got that far, a probe's success excepted.
C34_CountsAccounted ==
    /\ [](/\ currentFailureCount >= 0 /\ currentSuccessCount >= 0
          /\ lastFailureCount >= 0 /\ lastSuccessCount >= 0)
    /\ [][\A c \in Callers :
             (pc[c] = "add" /\ pc'[c] # "add")
                => IF observed[c][1]
                   THEN /\ currentFailureCount' = currentFailureCount + 1
                        /\ currentSuccessCount' = currentSuccessCount
                   ELSE /\ currentSuccessCount' = currentSuccessCount + 1
                        /\ currentFailureCount' = currentFailureCount]_vars
    /\ [][Accounted' = Accounted + (started' - started)]_vars
    /\ [](started = Cardinality({c \in Callers : Counted(c)}))

\* a failure was counted between the two swaps of another observer's rotation
C34_Witness ==
    \E c, d \in Callers :
        /\ c # d
        /\ pc[c] = "swapLastF" /\ fret[c].tmp = 1
        /\ pc[d] = "loadOther" /\ observed[d] = <<TRUE>>
        /\ fret[d].curF = 1
        /\ currentFailureCount = 1

\* C35: while the circuit is OPEN (opened less than halfOpenDelay ago) the
\* only step that closes it is the observation of a probe admitted in
\* HALF_OPEN; the late outcome of a call admitted before the opening does not,
\* so no Call is admitted before the delay has passed.
C35_OpenForTheDelay ==
    [][(State(openedAt, now, cfg.halfOpenDelay) = StateOpen /\ openedAt' = 0)
         => \E c \in Callers :
                /\ stv[c] = StateHalfOpen
                /\ observed[c] = << >> /\ observed'[c] # << >>]_vars

\* C36: a call that took a slot of the limiter and is then refused by the
\* inner factory (ErrCircuitOpen) returns with the slot given back: the step
\* leaves the number of slots taken as it was.
C36_RefusedCallKeepsNoSlot ==
    [][\A c \in Callers :
          (cfg.limiter # "none" /\ pc[c] = "factory" /\ pc'[c] = "done"
              /\ result'[c].err = ErrCircuitOpen)
             => sem' = sem]_vars

\* C37: behind a blocking limiter, when every call that can take a step does
\* so in the end, a caller waiting at the limiter with a context that is not
\* cancelled does not wait forever.
C37_WaiterEventuallyAdmitted ==
    \A c \in Callers :
        (pc[c] = "factory" /\ pctx[c] = "live")
           ~> (pc[c] # "factory" \/ pctx[c] # "live")

\* C38: once Call has returned or panicked its child context is done, so the
\* watcher it started can wake up and, scheduled fairly, terminates; a Call
\* refused at admission has started no watcher.
C38_WatcherTerminates ==
    /\ [](\A c \in Callers :
             (pc[c] = "done" /\ wpc[c] = "waiting") => CtxDone(c))
    /\ [](\A c \in Callers :
             (pc[c] = "done" /\ fcalls[c] = 0) => wpc[c] = "none")
    /\ \A c \in Callers :
          (pc[c] = "done" /\ wpc[c] = "waiting") ~> wpc[c] = "done"

\* every call has finished, one by a panic and one refused by the open
\* circuit, and no watcher is left
C38_Witness ==
    \E c, d \in Callers :
        /\ c # d
        /\ pc[c] = "done" /\ result[c].panic /\ wpc[c] = "done"
        /\ pc[d] = "done" /\ result[d].err = ErrCircuitOpen
        /\ wpc[d] = "none"
        /\ started = MaxCalls

\* call c is a probe past its re-stamp whose function has not returned and
\* whose context has not been cancelled
PendingProbe(c) ==
    /\ stv[c] = StateHalfOpen
    /\ pc[c] \in {"factory", "running"}
    /\ ~once[c]
    /\ pctx[c] = "live"

\* C39: a probe that does not resolve does not lock the circuit: while it is
\* pending and the circuit has not been opened anew since it read the state,
\* a Call that reads the state halfOpenDelay or more after the probe did
\* computes HALF_OPEN again, and a Call that computed HALF_OPEN is admitted.
C39_PendingProbeDoesNotLock ==
    /\ [][\A c, d \in Callers :
             (c # d /\ PendingProbe(c) /\ ReadsState(d)
                 /\ openedAt # 0 /\ openedAt <= readAt[c]
                 /\ now - readAt[c] >= cfg.halfOpenDelay)
                => stv'[d] = StateHalfOpen]_vars
    /\ [][\A d \in Callers :
             (stv[d] = StateHalfOpen /\ pc[d] = "factory"
                 /\ pc'[d] # "factory")
                => pc'[d] = "running" /\ fcalls'[d] = 1]_vars

\* a probe is still pending and a second probe, admitted halfOpenDelay or
\* more after the first, is running beside it
C39_Witness ==
    \E c, d \in Callers :
        /\ c # d
        /\ PendingProbe(c) /\ pc[c] = "running"
        /\ stv[d] = StateHalfOpen /\ pc[d] = "running"
        /\ readAt[d] - readAt[c] >= cfg.halfOpenDelay
        /\ openedAt # 0 /\ openedAt <= readAt[c]

\* calls the Middleware's inner factory has refused with an error of the cause
Refused(cause_) ==
    {c \in Callers : /\ pc[c] = "done" /\ observed[c] = << >>
                     /\ errToCause(result[c].err) = cause_}

\* C40: the Middleware around a factory answers every call as the factory
\* alone does on the same state (the same error, or an observer, and the same
\* slots taken), its observer hands the call's failure flag to the inner
\* observer exactly once, the in-flight gauge is the number of calls admitted
\* and not yet observed, and each dropped-calls counter is the number of calls
\* refused with that cause.
C40_MetricsTransparent ==
    /\ [][\A c \in Callers :
             (pc[c] = "idle" /\ pc'[c] # "idle")
                => LET inner == InnerObserverForCall(
                                    State(openedAt, now, cfg.halfOpenDelay),
                                    sem)
                   IN  /\ inner.err # "nil"
                            => pc'[c] = "done" /\ result'[c].err = inner.err
                       /\ inner.err = "nil" => pc'[c] = "called"
                       /\ sem' = inner.sem
                       /\ UNCHANGED policyVars]_vars
    /\ [][\A c \in Callers :
             (pc[c] = "called" /\ pc'[c] = "done")
                => observed'[c] = <<result'[c].err # "nil">>]_vars
    /\ [](metrics.inflightCalls
             = Cardinality({c \in Callers : pc[c] = "called"}))
    /\ [](\A cause_ \in Causes :
             metrics.droppedCalls[cause_] = Cardinality(Refused(cause_)))

\* one call was refused by the open circuit and counted as dropped, another
\* was admitted, observed as a failure and is no longer in flight
C40_Witness ==
    \E c, d \in Callers :
        /\ pc[c] = "done" /\ observed[c] = <<TRUE>>
        /\ pc[d] = "done" /\ result[d].err = ErrCircuitOpen
        /\ metrics.droppedCalls["circuit_open"] = 1
        /\ metrics.inflightCalls = 0
        /\ metrics.callDurations[FALSE] = 1

====
